---- MODULE Spec2Model ----
(***************************************************************************)
(* A model of sxmlc, the small XML parser.  The repository holds two       *)
(* generations of the library:                                             *)
(*   src/src/sxmlc.c  the SAX driver XMLDoc_parse_file_SAX, the DOM        *)
(*                    listener DOMXMLDoc_node_* on top of it, the special  *)
(*                    tag table _spec and the user tag registry;           *)
(*   src/sxmlc.c      the earlier XMLDoc_parse_file_DOM / _SAX loops with  *)
(*                    the classifier _parse_XML_1string.                   *)
(* C strings are sequences of one-character strings, indexed from 0 as in  *)
(* the source through At; the terminating NUL is the empty string.         *)
(* malloc/realloc are taken to succeed.                                    *)
(***************************************************************************)
EXTENDS Integers, Sequences, FiniteSets, TLC

(* ------------------------------------------------------------------ *)
(* Bounds of the model                                                *)
(* ------------------------------------------------------------------ *)

\* longest input, in tokens of Tokens
MaxTokens == 4

\* longest input handed to a user's listener, in tokens of SaxTokens
MaxSaxTokens == 3

\* most user tags registered
MaxUserTags == 2

\* most attributes of a tag handed to the classifier
MaxAttrs == 2
MaxNodes == 5
MaxOps == 2

(* ------------------------------------------------------------------ *)
(* C strings                                                          *)
(* ------------------------------------------------------------------ *)

NUL == ""

\* a NULL char* (distinct from every string, the empty one included)
NULL == <<"NULL">>

At(s, i) == IF i >= 0 /\ i < Len(s) THEN s[i + 1] ELSE NUL

isspace(c) == c \in {" ", "\n", "\t", "\r"}

Min(S) == CHOOSE x \in S : \A y \in S : x <= y

\* the characters s[i], ..., s[i+n-1]
Sub(s, i, n) == IF n <= 0 THEN <<>> ELSE SubSeq(s, i + 1, i + n)

\* the string starting at s + i
From(s, i) == Sub(s, i, Len(s) - i)

\* strncmp(s + i, pat, strlen(pat)) == 0
strncmp_eq(s, i, pat) ==
    /\ i >= 0
    /\ i + Len(pat) <= Len(s)
    /\ Sub(s, i, Len(pat)) = pat

\* first index >= from holding a character of Stop, or the terminating NUL
ScanTo(s, from, Stop) ==
    Min({i \in from..Len(s) : At(s, i) \in Stop \/ i = Len(s)})

\* first index >= from that holds no space (the NUL is none)
SkipSpaces(s, from) ==
    Min({i \in from..Len(s) : ~isspace(At(s, i))})

\* strchr(s + from, c): the index, or -1 for NULL
strchr(s, from, c) ==
    IF \E i \in from..(Len(s) - 1) : s[i + 1] = c
    THEN Min({i \in from..(Len(s) - 1) : s[i + 1] = c})
    ELSE -1

\* str_unescape of utils.c: a backslash is dropped and the character it
\* protects is kept
RECURSIVE str_unescape(_)
str_unescape(s) ==
    IF s = <<>> THEN <<>>
    ELSE IF s[1] = "\\" /\ Len(s) >= 2
         THEN <<s[2]>> \o str_unescape(Sub(s, 2, Len(s) - 2))
         ELSE <<s[1]>> \o str_unescape(Tail(s))

\* html2str of utils.c: the HTML escape sequences are replaced by the
\* characters they stand for
RECURSIVE html2str(_)
html2str(s) ==
    IF s = <<>> THEN <<>>
    ELSE IF strncmp_eq(s, 0, <<"&", "l", "t", ";">>)
         THEN <<"<">> \o html2str(Sub(s, 4, Len(s) - 4))
    ELSE IF strncmp_eq(s, 0, <<"&", "g", "t", ";">>)
         THEN <<">">> \o html2str(Sub(s, 4, Len(s) - 4))
    ELSE IF strncmp_eq(s, 0, <<"&", "a", "m", "p", ";">>)
         THEN <<"&">> \o html2str(Sub(s, 5, Len(s) - 5))
    ELSE <<s[1]>> \o html2str(Tail(s))

(* ------------------------------------------------------------------ *)
(* Tag types (enum TagType of sxmlc.h)                                *)
(* ------------------------------------------------------------------ *)

TAG_NONE == 0
TAG_PARTIAL == 1
TAG_FATHER == 2
TAG_SELF == 3
TAG_INSTR == 4
TAG_COMMENT == 5
TAG_CDATA == 6
TAG_DOCTYPE == 7
TAG_END == 8
TAG_USER == 100

\* the first generation's names for the same kinds
TAG_PROLOG == 4
TAG_PARTIAL_COMMENT == 1

(* ------------------------------------------------------------------ *)
(* Nodes                                                              *)
(* ------------------------------------------------------------------ *)

\* XMLNode_init: the node the SAX loop classifies into
XMLNode_init ==
    [tag |-> NULL, text |-> NULL, tag_type |-> TAG_NONE, attributes |-> <<>>]

\* XMLNode_free leaves the node as XMLNode_init made it
XMLNode_free(node) == XMLNode_init

(* ------------------------------------------------------------------ *)
(* The special tag table and the user tag registry                    *)
(* ------------------------------------------------------------------ *)

\* static _TAG _spec[]
_spec ==
    << [tag_type |-> TAG_INSTR,   start |-> <<"<", "?">>,
        end |-> <<"?", ">">>],
       [tag_type |-> TAG_COMMENT, start |-> <<"<", "!", "-", "-">>,
        end |-> <<"-", "-", ">">>],
       [tag_type |-> TAG_CDATA,
        start |-> <<"<", "!", "[", "C", "D", "A", "T", "A", "[">>,
        end |-> <<"]", "]", "/", ">">>] >>

NB_SPECIAL_TAGS == Len(_spec)

(* ------------------------------------------------------------------ *)
(* The attribute decoder                                              *)
(* ------------------------------------------------------------------ *)

\* XML_parse_attribute with the quotes of the value never removed
XML_parse_attribute_KeepQuotes(str) ==
    LET n0a == ScanTo(str, 0, {"=", " ", "\n", "\t", "\r"})
        n1  == SkipSpaces(str, n0a)
        n1b == SkipSpaces(str, n1 + 1)
    IN  IF At(str, n1) # "="
        THEN [ret |-> 0, attr |-> [name |-> NULL, value |-> NULL,
                                   active |-> TRUE], ub |-> FALSE]
        ELSE [ret  |-> 1,
              attr |-> [name   |-> Sub(str, 0, n0a),
                        value  |-> html2str(str_unescape(From(str, n1b))),
                        active |-> TRUE],
              ub   |-> FALSE]

\* XML_parse_attribute(str, xmlattr): ret is 0 (malformed), 1, or 2 (quote
\* at the beginning but not at the end); ub tells that the copy loop read
\* past the terminating NUL of str, or that it wrote past the
\* strlen(str) - n1 - remQ bytes of value, which an unquoted value does
XML_parse_attribute(str) ==
    LET len  == Len(str)
        n0   == ScanTo(str, 0, {"=", " ", "\n", "\t", "\r"})
        n1   == SkipSpaces(str, n0)
        n1b  == SkipSpaces(str, n1 + 1)
        remQ == IF At(str, n1b) = "\"" THEN 1 ELSE 0
        \* for (p = str+n1+remQ; *(p+remQ); p++): p stops where p+remQ is
        \* the NUL
        pend == len - remQ
        raw  == Sub(str, n1b + remQ, pend - (n1b + remQ))
    IN  IF At(str, n1) # "="
        THEN [ret |-> 0, attr |-> [name |-> NULL, value |-> NULL,
                                   active |-> TRUE], ub |-> FALSE]
        ELSE [ret  |-> IF remQ = 1 /\ At(str, pend) # "\"" THEN 2 ELSE 1,
              attr |-> [name   |-> Sub(str, 0, n0),
                        value  |-> html2str(str_unescape(raw)),
                        active |-> TRUE],
              ub   |-> (n1b + remQ > pend) \/ remQ = 0]

(* ------------------------------------------------------------------ *)
(* The tag classifier                                                 *)
(* ------------------------------------------------------------------ *)

\* _parse_special_tag with the last character of the payload left out
_parse_special_tag_ShortPayload(str, len, tag, node) ==
    LET ls == Len(tag.start)
        le == Len(tag.end)
    IN  IF ~strncmp_eq(str, 0, tag.start)
        THEN [ret |-> TAG_NONE, node |-> node, ub |-> FALSE]
        ELSE IF ~strncmp_eq(str, len - le, tag.end)
        THEN [ret |-> TAG_PARTIAL, node |-> node, ub |-> FALSE]
        ELSE [ret  |-> tag.tag_type,
              node |-> [node EXCEPT !.tag = Sub(str, ls, len - ls - le - 1),
                                    !.tag_type = tag.tag_type],
              ub   |-> (len - ls - le < 0)]

\* _parse_special_tag(str, len, tag, node); ub: the two delimiters overlap
\* in str and strncpy is handed a negative length
_parse_special_tag(str, len, tag, node) ==
    LET ls == Len(tag.start)
        le == Len(tag.end)
    IN  IF ~strncmp_eq(str, 0, tag.start)
        THEN [ret |-> TAG_NONE, node |-> node, ub |-> FALSE]
        ELSE IF ~strncmp_eq(str, len - le, tag.end)
        THEN [ret |-> TAG_PARTIAL, node |-> node, ub |-> FALSE]
        ELSE [ret  |-> tag.tag_type,
              node |-> [node EXCEPT !.tag = Sub(str, ls, len - ls - le),
                                    !.tag_type = tag.tag_type],
              ub   |-> (len - ls - le < 0)]

\* for (nn = 0; nn < n_tags; nn++) switch (_parse_special_tag(...)):
\* the first pair that answers something else than TAG_NONE decides
RECURSIVE SpecialLoop(_, _, _, _, _)
SpecialLoop(str, len, tags, nn, node) ==
    IF nn > Len(tags)
    THEN [ret |-> TAG_NONE, node |-> node, ub |-> FALSE]
    ELSE LET r == _parse_special_tag(str, len, tags[nn], node)
         IN  IF r.ret = TAG_NONE
             THEN SpecialLoop(str, len, tags, nn + 1, node)
             ELSE r

\* the "<!DOCTYPE" branch of XML_parse_1string
ParseDoctype(str, len, node) ==
    LET n  == ScanTo(str, 9, {"["})
        br == At(str, n) # NUL
        nn == IF br THEN 1 ELSE 0
    IN  IF br /\ ~strncmp_eq(str, len - 2, <<"]", ">">>)
        THEN [ret |-> TAG_PARTIAL, node |-> node, ub |-> FALSE]
        ELSE [ret  |-> TAG_DOCTYPE,
              node |-> [node EXCEPT !.tag = Sub(str, 9, len - 10 - nn),
                                    !.tag_type = TAG_DOCTYPE],
              ub   |-> (len - 10 - nn < 0)]

\* for (nn = p-str+1; str[nn] && str[nn] != '"'; nn++)
\*     if (str[nn] == '\\') nn++;
RECURSIVE QuoteScan(_, _)
QuoteScan(str, nn) ==
    IF At(str, nn) = NUL \/ At(str, nn) = "\"" THEN nn
    ELSE IF At(str, nn) = "\\" THEN QuoteScan(str, nn + 2)
    ELSE QuoteScan(str, nn + 1)

\* parse_err: XMLNode_free(xmlnode); return 0;
ParseErr(node, ub) == [ret |-> 0, node |-> XMLNode_free(node), ub |-> ub]

\* the while (n < len) loop of XML_parse_1string, entered after the tag name
RECURSIVE AttrLoop(_, _, _, _)
AttrLoop(str, len, n, node) ==
    IF n >= len THEN ParseErr(node, n > len)
    ELSE
    LET n1 == SkipSpaces(str, n)
    IN  IF At(str, n1) = ">"
        THEN [ret |-> TAG_FATHER,
              node |-> [node EXCEPT !.tag_type = TAG_FATHER], ub |-> FALSE]
        ELSE IF From(str, n1) = <<"/", ">">>
        THEN [ret |-> TAG_SELF,
              node |-> [node EXCEPT !.tag_type = TAG_SELF], ub |-> FALSE]
        ELSE
        LET p == strchr(str, n1, "=")
        IN  IF p = -1 THEN ParseErr(node, FALSE)
            ELSE
            LET p2 == SkipSpaces(str, p + 1)
                nn == IF At(str, p2) = "\""
                      THEN QuoteScan(str, p2 + 1) + 1
                      ELSE ScanTo(str, p2 + 1,
                                  {" ", "\n", "\t", "\r", "/", ">"})
                \* str[nn] = 0: the fragment str+n ends there, or at the
                \* NUL of str when nn lies beyond it
                end == IF nn > len THEN len ELSE nn
                a  == XML_parse_attribute(Sub(str, n1, end - n1))
            IN  IF a.ret = 0
                THEN ParseErr(node, TRUE)
                ELSE IF a.ub
                THEN [ret |-> 0, node |-> node, ub |-> TRUE]
                ELSE AttrLoop(str, len, nn,
                        [node EXCEPT !.attributes = Append(@, a.attr)])

\* the generic element grammar of XML_parse_1string: </name>, <name .../>,
\* <name ...>
ParseElement(str, len, node) ==
    LET tag_end == IF At(str, 1) = "/" THEN 1 ELSE 0
        n       == ScanTo(str, 1 + tag_end,
                          {">", "/", " ", "\n", "\t", "\r"})
        named   == [node EXCEPT !.tag = Sub(str, 1 + tag_end, n - 1 - tag_end)]
    IN  IF tag_end = 1
        THEN [ret |-> TAG_END,
              node |-> [named EXCEPT !.tag_type = TAG_END], ub |-> FALSE]
        ELSE AttrLoop(str, len, n, named)

\* XML_parse_1string(str, xmlnode), reading the user tag registry
XML_parse_1string(str, xmlnode, user_tags) ==
    LET len == Len(str)
    IN  IF At(str, 0) # "<" \/ At(str, len - 1) # ">"
        THEN [ret |-> 0, node |-> xmlnode, ub |-> FALSE]
        ELSE
        LET s == SpecialLoop(str, len, _spec, 1, xmlnode)
        IN  IF s.ret # TAG_NONE THEN s
            ELSE IF At(str, 1) = "!"
                    /\ strncmp_eq(str, 0,
                         <<"<", "!", "D", "O", "C", "T", "Y", "P", "E">>)
            THEN ParseDoctype(str, len, xmlnode)
            ELSE
            LET u == SpecialLoop(str, len, user_tags, 1, xmlnode)
            IN  IF u.ret # TAG_NONE THEN u
                ELSE ParseElement(str, len, xmlnode)

(* ------------------------------------------------------------------ *)
(* The input and the line reader                                      *)
(* ------------------------------------------------------------------ *)

\* read_line_alloc(f, &line, &sz, i0, 0, '>', true, '\n', &ncr) of utils.c:
\* the characters of f from pos up to and including the next '>' (or up to
\* the end of f) are stored in line from index i0 on; the answer n is the
\* length of line, or 0 when f was already exhausted.  hit tells that the
\* end of f was met (feof)
read_line_alloc(f, pos, ln, i0) ==
    LET gt == strchr(f, pos, ">")
        k  == IF gt = -1 THEN Len(f) - pos ELSE gt + 1 - pos
    IN  [line |-> Sub(ln, 0, i0) \o Sub(f, pos, k),
         fpos |-> pos + k,
         n    |-> IF k = 0 THEN 0 ELSE i0 + k,
         hit  |-> (gt = -1)]

(* ------------------------------------------------------------------ *)
(* State                                                              *)
(* ------------------------------------------------------------------ *)

VARIABLES
    file,       \* the characters of the file being parsed
    fpos,       \* read position of f
    eof,        \* feof(f)
    line,       \* the line buffer of the parse loop
    n0,         \* last answer of read_line_alloc
    txt_end,    \* index in line of the '<' that starts the tag
    node,       \* XMLNode node of XMLDoc_parse_file_SAX
    tag_type,   \* last answer of the classifier
    ret,        \* the loop's ret
    exit,       \* the loop's exit
    pc,         \* position in the parse
    sax,        \* SAX_Callbacks: "NULL", "DOM" or "user" per slot
    log,        \* the callbacks invoked so far: their arguments, the cursor
                \* user->current they were invoked at, and their answer
    heap,       \* the XMLNode structs allocated by the DOM listener
    doc,        \* XMLDoc
    current,    \* dom.current: index in heap, 0 for NULL
    user_tags,  \* _user_tags
    result,     \* what the parse returned to its caller, "none" before
    root,       \* XMLNode root of src/sxmlc.c's XMLDoc_parse_file_SAX
    i_attr      \* its attribute loop's i

vars == <<file, fpos, eof, line, n0, txt_end, node, tag_type, ret, exit, pc,
          sax, log, heap, doc, current, user_tags, result, root, i_attr>>

\* XMLDoc_init
XMLDoc_init == [nodes |-> <<>>, i_root |-> -1]

(* ------------------------------------------------------------------ *)
(* The DOM listener (DOM through SAX)                                 *)
(* ------------------------------------------------------------------ *)

\* XMLNode_copy(dst, src, false) on a dst fresh from XMLNode_alloc: the tag,
\* the attributes, tag_type, father and active are copied; dst->text is
\* tested where src->text is meant, so the text is never copied; no child is
\* copied.  The node of the SAX loop has no father (the DOM listener writes
\* the copy's father itself)
XMLNode_copy(src) ==
    [tag        |-> src.tag,
     text       |-> NULL,
     attributes |-> src.attributes,
     tag_type   |-> src.tag_type,
     father     |-> IF "father" \in DOMAIN src THEN src.father ELSE 0,
     children   |-> <<>>,
     active     |-> TRUE]

\* DOMXMLDoc_node_start(node, dom)
DOMXMLDoc_node_start(nd, h, d, cur) ==
    LET new_node == Len(h) + 1
        copied   == [XMLNode_copy(nd) EXCEPT !.father = cur]
        i        == Len(d.nodes)
    IN  IF cur = 0
        THEN [r    |-> TRUE,
              heap |-> Append(h, copied),
              doc  |-> [nodes  |-> Append(d.nodes, new_node),
                        i_root |-> IF d.i_root < 0 /\ nd.tag_type = TAG_FATHER
                                   THEN i ELSE d.i_root],
              current |-> new_node]
        ELSE [r    |-> TRUE,
              heap |-> Append([h EXCEPT ![cur].children = Append(@, new_node)],
                              copied),
              doc  |-> d,
              current |-> new_node]

\* DOMXMLDoc_node_end(node, dom)
DOMXMLDoc_node_end(nd, h, d, cur) ==
    IF cur = 0
    THEN [r |-> FALSE, heap |-> h, doc |-> d, current |-> cur]
    ELSE [r |-> TRUE, heap |-> h, doc |-> d, current |-> h[cur].father]

\* while(*p && isspace(*p++)) ;  -- the index p is left at
TextScan(text) ==
    LET k == SkipSpaces(text, 0)
    IN  IF k = Len(text) THEN k ELSE k + 1

\* DOMXMLDoc_node_text(text, dom)
DOMXMLDoc_node_text(text, h, d, cur) ==
    IF At(text, TextScan(text)) = NUL
    THEN [r |-> TRUE, heap |-> h, doc |-> d, current |-> cur]
    ELSE IF cur = 0
    THEN [r |-> FALSE, heap |-> h, doc |-> d, current |-> cur]
    ELSE [r |-> TRUE, heap |-> [h EXCEPT ![cur].text = text],
          doc |-> d, current |-> cur]

(* ------------------------------------------------------------------ *)
(* XMLDoc_parse_file_SAX (src/src/sxmlc.c)                            *)
(* ------------------------------------------------------------------ *)

\* the text before the tag: line with *txt_end = 0
LineText == Sub(line, 0, txt_end)

Entry(cb, ev, nd, text, r) ==
    [cb |-> cb, ev |-> ev, tag |-> nd.tag, tag_type |-> nd.tag_type,
     text |-> text, cur |-> current,
     cur_tag |-> IF current = 0 THEN NULL ELSE heap[current].tag, r |-> r]

\* the answers a listener's handler may give: a user's handler any, the DOM
\* listener's its own
Answers(slot, domr) == IF slot = "DOM" THEN {domr} ELSE BOOLEAN

\* if (exit == true || ret == false || feof(f)) break;  with exit false and
\* ret true
LoopEndPc(e) == IF e THEN "return" ELSE "loop"

\* SelfEndPc with the End raised for self-closing elements only
SelfEndPc_ElementsOnly(nd, e) ==
    IF nd.tag_type = TAG_SELF
       /\ (sax.end_node # "NULL" \/ sax.all_event # "NULL")
    THEN IF sax.end_node # "NULL" THEN "self_end" ELSE "self_all_end"
    ELSE LoopEndPc(e)

\* lines 894-903: the End of a node that is no TAG_FATHER
SelfEndPc(nd, e) ==
    IF nd.tag_type # TAG_FATHER
       /\ (sax.end_node # "NULL" \/ sax.all_event # "NULL")
    THEN IF sax.end_node # "NULL" THEN "self_end" ELSE "self_all_end"
    ELSE LoopEndPc(e)

\* AllStartPc with the catch-all left out once the start callback ran
AllStartPc_OnlyIfUnset(nd, e) ==
    IF sax.all_event # "NULL" /\ sax.start_node = "NULL" THEN "all_start"
    ELSE SelfEndPc(nd, e)

\* line 892
AllStartPc(nd, e) ==
    IF sax.all_event # "NULL" THEN "all_start" ELSE SelfEndPc(nd, e)

\* line 890
StartPc(nd, e) ==
    IF sax.start_node # "NULL" THEN "start_node" ELSE AllStartPc(nd, e)

\* lines 861-880: where the classifier's answer leads
TagPc(tt, nd, e) ==
    IF tt = 0 THEN "return"
    ELSE IF tt = TAG_END /\ (sax.end_node # "NULL" \/ sax.all_event # "NULL")
    THEN IF sax.end_node # "NULL" THEN "end_node" ELSE "all_end"
    ELSE IF tt = TAG_PARTIAL THEN "partial"
    ELSE StartPc(nd, e)

\* line 849
TextPc(text) ==
    IF text # <<>> /\ sax.new_text # "NULL" THEN "new_text"
    ELSE IF text # <<>> /\ sax.all_event # "NULL" THEN "all_text"
    ELSE "parse"

\* lines 833-848: one read of the while condition, up to the text
SAX_ReadLine ==
    /\ pc = "loop"
    /\ LET rd == read_line_alloc(file, fpos, line, 0)
           lt == strchr(rd.line, 0, "<")
       IN  /\ line' = rd.line
           /\ fpos' = rd.fpos
           /\ eof' = (eof \/ rd.hit)
           /\ n0' = rd.n
           /\ IF rd.n = 0
              THEN /\ pc' = "return"
                   /\ UNCHANGED <<node, txt_end, ret>>
              ELSE /\ node' = XMLNode_free(node)
                   /\ IF SkipSpaces(rd.line, 0) = Len(rd.line)
                      THEN /\ pc' = "return"
                           /\ UNCHANGED <<txt_end, ret>>
                      ELSE IF lt = -1
                      THEN /\ pc' = "return"
                           /\ ret' = FALSE
                           /\ UNCHANGED txt_end
                      ELSE /\ txt_end' = lt
                           /\ pc' = TextPc(Sub(rd.line, 0, lt))
                           /\ UNCHANGED ret
    /\ UNCHANGED <<file, tag_type, exit, sax, log, heap, doc, current,
                   user_tags, result,
                   root, i_attr>>

\* lines 850-853: exit = !sax->new_text(str_unescape(line), user)
SAX_NewText ==
    /\ pc = "new_text"
    /\ LET text == str_unescape(LineText)
           d    == DOMXMLDoc_node_text(text, heap, doc, current)
       IN  \E r \in Answers(sax.new_text, d.r) :
             /\ log' = Append(log, Entry("new_text", "TEXT", XMLNode_init,
                                         text, r))
             /\ exit' = ~r
             /\ IF sax.new_text = "DOM"
                THEN /\ heap' = d.heap
                     /\ doc' = d.doc
                     /\ current' = d.current
                ELSE UNCHANGED <<heap, doc, current>>
             /\ pc' = IF ~r THEN "return"
                      ELSE IF sax.all_event # "NULL" THEN "all_text"
                      ELSE "parse"
    /\ UNCHANGED <<file, fpos, eof, line, n0, txt_end, node, tag_type, ret,
                   sax, user_tags, result,
                   root, i_attr>>

\* line, as all_event is handed it: str_unescape works in place, so it is
\* unescaped when new_text was called before
AllEventLine ==
    IF sax.new_text # "NULL" THEN str_unescape(LineText) ELSE LineText

\* lines 854-857: exit = !sax->all_event(XML_EVENT_TEXT, NULL, line, ...)
SAX_AllEventText ==
    /\ pc = "all_text"
    /\ \E r \in BOOLEAN :
         /\ log' = Append(log, Entry("all_event", "TEXT", XMLNode_init,
                                     AllEventLine, r))
         /\ exit' = ~r
         /\ pc' = IF ~r THEN "return" ELSE "parse"
    /\ UNCHANGED <<file, fpos, eof, line, n0, txt_end, node, tag_type, ret,
                   sax, heap, doc, current, user_tags, result,
                   root, i_attr>>

\* lines 859-867 and the branch taken on the classifier's answer
SAX_Parse ==
    /\ pc = "parse"
    /\ LET c == XML_parse_1string(From(line, txt_end), node, user_tags)
       IN  /\ tag_type' = c.ret
           /\ node' = c.node
           /\ ret' = (c.ret # 0)
           /\ pc' = IF c.ub THEN "ub" ELSE TagPc(c.ret, c.node, eof)
    /\ UNCHANGED <<file, fpos, eof, line, n0, txt_end, exit, sax, log, heap,
                   doc, current, user_tags, result,
                   root, i_attr>>

\* lines 880-888: one turn of while (tag_type == TAG_PARTIAL)
SAX_Continue ==
    /\ pc = "partial"
    /\ LET rd == read_line_alloc(file, fpos, line, n0)
           c  == XML_parse_1string(From(rd.line, txt_end), node, user_tags)
       IN  /\ line' = rd.line
           /\ fpos' = rd.fpos
           /\ eof' = (eof \/ rd.hit)
           /\ n0' = rd.n
           /\ IF rd.n = 0
              THEN /\ ret' = FALSE
                   /\ pc' = "return"
                   /\ UNCHANGED <<tag_type, node>>
              ELSE /\ tag_type' = c.ret
                   /\ node' = c.node
                   /\ pc' = IF c.ub THEN "ub"
                            ELSE IF c.ret = TAG_PARTIAL THEN "partial"
                            ELSE StartPc(c.node, eof \/ rd.hit)
                   /\ UNCHANGED ret
    /\ UNCHANGED <<file, txt_end, exit, sax, log, heap, doc, current,
                   user_tags, result,
                   root, i_attr>>

\* a node callback: the handler is run, its answer becomes exit, and the
\* parse goes to stop when it says so, to next otherwise
NodeCallback(cb, ev, slot, d, next) ==
    \E r \in Answers(slot, d.r) :
      /\ log' = Append(log, Entry(cb, ev, node, NULL, r))
      /\ exit' = ~r
      /\ IF slot = "DOM"
         THEN /\ heap' = d.heap
              /\ doc' = d.doc
              /\ current' = d.current
         ELSE UNCHANGED <<heap, doc, current>>
      /\ pc' = IF ~r THEN "return" ELSE next
      /\ UNCHANGED <<file, fpos, eof, line, n0, txt_end, node, tag_type,
                     ret, sax, user_tags, result,
                   root, i_attr>>

NoDom == [r |-> TRUE, heap |-> heap, doc |-> doc, current |-> current]

\* lines 869-872: the end callback of an end tag
SAX_EndNode ==
    /\ pc = "end_node"
    /\ NodeCallback("end_node", "END", sax.end_node,
                    DOMXMLDoc_node_end(node, heap, doc, current),
                    IF sax.all_event # "NULL" THEN "all_end"
                    ELSE LoopEndPc(eof))

\* lines 873-876
SAX_AllEventEnd ==
    /\ pc = "all_end"
    /\ NodeCallback("all_event", "END", "user", NoDom, LoopEndPc(eof))

\* lines 890-891
SAX_StartNode ==
    /\ pc = "start_node"
    /\ NodeCallback("start_node", "START", sax.start_node,
                    DOMXMLDoc_node_start(node, heap, doc, current),
                    AllStartPc(node, eof))

\* lines 892-893
SAX_AllEventStart ==
    /\ pc = "all_start"
    /\ NodeCallback("all_event", "START", "user", NoDom, SelfEndPc(node, eof))

\* lines 895-898: the end callback of a node that is no TAG_FATHER
SAX_SelfEndNode ==
    /\ pc = "self_end"
    /\ NodeCallback("end_node", "END", sax.end_node,
                    DOMXMLDoc_node_end(node, heap, doc, current),
                    IF sax.all_event # "NULL" THEN "self_all_end"
                    ELSE LoopEndPc(eof))

\* lines 899-902
SAX_AllEventSelfEnd ==
    /\ pc = "self_all_end"
    /\ NodeCallback("all_event", "END", "user", NoDom, LoopEndPc(eof))

\* XMLDoc_free that releases nothing
XMLDoc_free_KeepNodes == [heap |-> heap, doc |-> doc]

\* XMLDoc_free: every node of the document is released and the document is
\* initialised again
XMLDoc_free == [heap |-> <<>>, doc |-> XMLDoc_init]

\* lines 907-911, and for the DOM listener lines 973-979 of
\* XMLDoc_parse_file_DOM: a false answer of the SAX parse frees the document
SAX_Return ==
    /\ pc = "return"
    /\ pc' = "done"
    /\ node' = XMLNode_free(node)
    /\ result' = IF ret THEN "true" ELSE "false"
    /\ IF sax.start_node = "DOM" /\ ~ret
       THEN /\ heap' = XMLDoc_free.heap
            /\ doc' = XMLDoc_free.doc
            /\ current' = 0
       ELSE UNCHANGED <<heap, doc, current>>
    /\ UNCHANGED <<file, fpos, eof, line, n0, txt_end, tag_type, ret, exit,
                   sax, log, user_tags, root, i_attr>>

(* ------------------------------------------------------------------ *)
(* Inputs                                                             *)
(* ------------------------------------------------------------------ *)

RECURSIVE Flatten(_)
Flatten(ss) == IF ss = <<>> THEN <<>> ELSE Head(ss) \o Flatten(Tail(ss))

\* the files made of at most n pieces of T
Inputs(T, n) == {Flatten(ss) : ss \in UNION {[1..k -> T] : k \in 0..n}}

\* <r>  </r>  <a>  <a/>  tx  t  <!--a>  b-->
Tokens ==
    { <<"<", "r", ">">>, <<"<", "/", "r", ">">>, <<"<", "a", ">">>,
      <<"<", "a", "/", ">">>, <<"t", "x">>, <<"t">>,
      <<"<", "!", "-", "-", "a", ">">>, <<"b", "-", "-", ">">> }

DomSax == [new_text |-> "DOM", start_node |-> "DOM", end_node |-> "DOM",
           all_event |-> "NULL"]

InitParse(f, s) ==
    /\ file = f
    /\ fpos = 0
    /\ eof = FALSE
    /\ line = <<>>
    /\ n0 = 0
    /\ txt_end = 0
    /\ node = XMLNode_init
    /\ tag_type = TAG_NONE
    /\ ret = TRUE
    /\ exit = FALSE
    /\ pc = "loop"
    /\ sax = s
    /\ log = <<>>
    /\ heap = <<>>
    /\ doc = XMLDoc_init
    /\ current = 0
    /\ user_tags = <<>>
    /\ result = "none"
    /\ root = XMLNode_init
    /\ i_attr = 0

\* XMLDoc_parse_file_DOM on an initialised document
Init == \E f \in Inputs(Tokens, MaxTokens) : InitParse(f, DomSax)

\* <a>  </a>  <a/>  tx  <!--a>  b-->
SaxTokens ==
    { <<"<", "a", ">">>, <<"<", "/", "a", ">">>, <<"<", "a", "/", ">">>,
      <<"t", "x">>, <<"<", "!", "-", "-", "a", ">">>,
      <<"b", "-", "-", ">">> }

\* the SAX_Callbacks a user may hand in: any subset of the slots
UserSax ==
    [new_text : {"NULL", "user"}, start_node : {"NULL", "user"},
     end_node : {"NULL", "user"}, all_event : {"NULL", "user"}]

\* XMLDoc_parse_file_SAX with a user's listener
InitSAX ==
    \E f \in Inputs(SaxTokens, MaxSaxTokens) :
      \E s \in UserSax : InitParse(f, s)

Next ==
    \/ SAX_ReadLine
    \/ SAX_NewText
    \/ SAX_Parse
    \/ SAX_Continue
    \/ SAX_EndNode
    \/ SAX_StartNode
    \/ SAX_SelfEndNode
    \/ SAX_Return

Spec == Init /\ [][Next]_vars

NextSAX ==
    \/ Next
    \/ SAX_AllEventText
    \/ SAX_AllEventEnd
    \/ SAX_AllEventStart
    \/ SAX_AllEventSelfEnd

SpecSAX == InitSAX /\ [][NextSAX]_vars

(* ------------------------------------------------------------------ *)
(* The first generation (src/sxmlc.c): classifier                     *)
(* ------------------------------------------------------------------ *)

\* parse_XML_attribute(str, xmlattr): as XML_parse_attribute, the name and
\* the value not being unescaped and there being no active flag
parse_XML_attribute(str) ==
    LET len  == Len(str)
        n0a  == ScanTo(str, 0, {"=", " ", "\n", "\t", "\r"})
        n1   == SkipSpaces(str, n0a)
        n1b  == SkipSpaces(str, n1 + 1)
        remQ == IF At(str, n1b) = "\"" THEN 1 ELSE 0
        pend == len - remQ
        raw  == Sub(str, n1b + remQ, pend - (n1b + remQ))
    IN  IF At(str, n1) # "="
        THEN [ret |-> 0, attr |-> [name |-> NULL, value |-> NULL],
              ub |-> FALSE]
        ELSE [ret  |-> IF remQ = 1 /\ At(str, pend) # "\"" THEN 2 ELSE 1,
              attr |-> [name |-> Sub(str, 0, n0a), value |-> html2str(raw)],
              ub   |-> (n1b + remQ > pend) \/ remQ = 0]

\* XMLNode_free of src/sxmlc.c: tag_type is left as it is
XMLNode_free1(xmlnode) ==
    [xmlnode EXCEPT !.tag = NULL, !.text = NULL, !.attributes = <<>>]

\* parse_err: XMLNode_free(xmlnode); return 0;
ParseErr1(xmlnode, ub) ==
    [ret |-> 0, node |-> XMLNode_free1(xmlnode), ub |-> ub]

\* the while (n < len) loop of _parse_XML_1string
RECURSIVE AttrLoop1(_, _, _, _)
AttrLoop1(str, len, n, xmlnode) ==
    IF n >= len THEN ParseErr1(xmlnode, n > len)
    ELSE
    LET n1 == SkipSpaces(str, n)
    IN  IF At(str, n1) = ">"
        THEN [ret |-> TAG_FATHER,
              node |-> [xmlnode EXCEPT !.tag_type = TAG_FATHER],
              ub |-> FALSE]
        ELSE IF From(str, n1) = <<"/", ">">>
        THEN [ret |-> TAG_SELF,
              node |-> [xmlnode EXCEPT !.tag_type = TAG_SELF], ub |-> FALSE]
        ELSE
        LET p == strchr(str, n1, "=")
        IN  IF p = -1 THEN ParseErr1(xmlnode, FALSE)
            ELSE
            LET p2 == SkipSpaces(str, p + 1)
                nn == IF At(str, p2) = "\""
                      THEN QuoteScan(str, p2 + 1) + 1
                      ELSE ScanTo(str, p2 + 1,
                                  {" ", "\n", "\t", "\r", "/", ">"})
                end == IF nn > len THEN len ELSE nn
                a  == parse_XML_attribute(Sub(str, n1, end - n1))
            IN  IF a.ret = 0
                THEN ParseErr1(xmlnode, TRUE)
                ELSE IF a.ub
                THEN [ret |-> 0, node |-> xmlnode, ub |-> TRUE]
                ELSE AttrLoop1(str, len, nn,
                        [xmlnode EXCEPT !.attributes = Append(@, a.attr)])

\* _parse_XML_1string(str, xmlnode); ub: strncpy is handed a negative length
_parse_XML_1string(str, xmlnode) ==
    LET len == Len(str)
    IN  IF At(str, 0) # "<" \/ At(str, len - 1) # ">"
        THEN [ret |-> 0, node |-> xmlnode, ub |-> FALSE]
        ELSE IF At(str, 1) = "?"
        THEN LET l2 == IF At(str, len - 2) = "?" THEN len - 1 ELSE len
             IN  [ret  |-> TAG_PROLOG,
                  node |-> [xmlnode EXCEPT !.tag = Sub(str, 2, l2 - 4),
                                           !.tag_type = TAG_PROLOG],
                  ub   |-> (l2 - 4 < 0)]
        ELSE IF At(str, 1) = "!"
        THEN IF ~strncmp_eq(str, 0, <<"<", "!", "-", "-">>)
             THEN [ret |-> 0, node |-> xmlnode, ub |-> FALSE]
             ELSE IF ~strncmp_eq(str, len - 3, <<"-", "-", ">">>)
             THEN [ret |-> TAG_PARTIAL_COMMENT, node |-> xmlnode,
                   ub |-> FALSE]
             ELSE [ret  |-> TAG_COMMENT,
                   node |-> [xmlnode EXCEPT !.tag = Sub(str, 4, len - 7),
                                            !.tag_type = TAG_COMMENT],
                   ub   |-> (len - 7 < 0)]
        ELSE
        LET tag_end == IF At(str, 1) = "/" THEN 1 ELSE 0
            n       == ScanTo(str, 1 + tag_end,
                              {">", "/", " ", "\n", "\t", "\r"})
            named   == [xmlnode EXCEPT
                          !.tag = Sub(str, 1 + tag_end, n - 1 - tag_end)]
        IN  IF tag_end = 1
            THEN [ret |-> TAG_END,
                  node |-> [named EXCEPT !.tag_type = TAG_END], ub |-> FALSE]
            ELSE AttrLoop1(str, len, n, named)

(* ------------------------------------------------------------------ *)
(* The first generation (src/sxmlc.c): XMLDoc_parse_file_SAX          *)
(* ------------------------------------------------------------------ *)

\* XMLNode_copy(&root, &node): dst is freed, then dst->tag is allocated but
\* never written, and neither tag_type nor n_attributes is set
XMLNode_copy1(src) == [XMLNode_init EXCEPT !.tag = <<"UNINIT">>]

\* after the loop: end_doc, when set, is called whatever ended the loop
Leave1Pc == IF sax.end_doc # "NULL" THEN "end_doc" ELSE "return"

\* if (exit == true || ret == false || feof(f)) break;  with exit false
LoopEnd1Pc(rt, e) == IF ~rt \/ e THEN Leave1Pc ELSE "loop"

\* lines 829-833 with exit false: the attribute callbacks, if any
Attr1Pc(nd, rt, e) ==
    IF sax.new_attribute # "NULL" /\ Len(nd.attributes) > 0
    THEN "new_attribute" ELSE LoopEnd1Pc(rt, e)

\* lines 757-772: one read of the while condition, up to the text
SAX1_ReadLine ==
    /\ pc = "loop"
    /\ LET rd == read_line_alloc(file, fpos, line, 0)
           lt == strchr(rd.line, 0, "<")
       IN  /\ line' = rd.line
           /\ fpos' = rd.fpos
           /\ eof' = (eof \/ rd.hit)
           /\ n0' = rd.n
           /\ IF rd.n = 0
              THEN /\ pc' = Leave1Pc
                   /\ UNCHANGED <<node, txt_end, ret>>
              ELSE /\ node' = XMLNode_free1(node)
                   /\ IF SkipSpaces(rd.line, 0) = Len(rd.line)
                      THEN /\ pc' = Leave1Pc
                           /\ UNCHANGED <<txt_end, ret>>
                      ELSE IF lt = -1
                      THEN /\ pc' = Leave1Pc
                           /\ ret' = FALSE
                           /\ UNCHANGED txt_end
                      ELSE /\ txt_end' = lt
                           /\ pc' = IF sax.new_text # "NULL" THEN "new_text"
                                    ELSE "parse"
                           /\ UNCHANGED ret
    /\ UNCHANGED <<file, tag_type, exit, sax, log, heap, doc, current,
                   user_tags, result, root, i_attr>>

\* a callback of the first generation: its answer becomes exit
Callback1(cb, ev, nd, text, stop, next) ==
    \E r \in BOOLEAN :
      /\ log' = Append(log, Entry(cb, ev, nd, text, r))
      /\ exit' = ~r
      /\ pc' = IF ~r THEN stop ELSE next
      /\ UNCHANGED <<file, fpos, eof, line, n0, txt_end, node, tag_type,
                     ret, sax, heap, doc, current, user_tags, result, root>>

\* lines 773-776: exit = !sax->new_text(line); if (exit) break;
SAX1_NewText ==
    /\ pc = "new_text"
    /\ Callback1("new_text", "TEXT", XMLNode_init, LineText, Leave1Pc,
                 "parse")
    /\ UNCHANGED i_attr

\* lines 778-788 and the branch taken on the classifier's answer
SAX1_Parse ==
    /\ pc = "parse"
    /\ LET c == _parse_XML_1string(From(line, txt_end), node)
       IN  /\ tag_type' = c.ret
           /\ node' = c.node
           /\ ret' = (c.ret # 0)
           /\ pc' = IF c.ub THEN "ub"
                    ELSE IF c.ret = 0 THEN Leave1Pc
                    ELSE IF c.ret = TAG_END /\ sax.end_node # "NULL"
                    THEN "end_node"
                    ELSE IF c.ret = TAG_PARTIAL_COMMENT THEN "partial"
                    ELSE "dispatch"
    /\ UNCHANGED <<file, fpos, eof, line, n0, txt_end, exit, sax, log, heap,
                   doc, current, user_tags, result, root, i_attr>>

\* lines 789-797: one turn of while (tag_type == TAG_PARTIAL_COMMENT)
SAX1_Continue ==
    /\ pc = "partial"
    /\ LET rd == read_line_alloc(file, fpos, line, n0)
           c  == _parse_XML_1string(From(rd.line, txt_end), node)
       IN  /\ line' = rd.line
           /\ fpos' = rd.fpos
           /\ eof' = (eof \/ rd.hit)
           /\ n0' = rd.n
           /\ IF rd.n = 0
              THEN /\ ret' = FALSE
                   /\ pc' = Leave1Pc
                   /\ UNCHANGED <<tag_type, node>>
              ELSE /\ tag_type' = c.ret
                   /\ node' = c.node
                   /\ pc' = IF c.ub THEN "ub"
                            ELSE IF c.ret = TAG_PARTIAL_COMMENT
                            THEN "partial"
                            ELSE "dispatch"
                   /\ UNCHANGED ret
    /\ UNCHANGED <<file, txt_end, exit, sax, log, heap, doc, current,
                   user_tags, result, root, i_attr>>

\* lines 783-786: the end callback of an end tag
SAX1_EndNode ==
    /\ pc = "end_node"
    /\ Callback1("end_node", "END", node, NULL, Leave1Pc,
                 Attr1Pc(node, ret, eof))
    /\ i_attr' = 0

\* lines 799-826 up to the first callback: without a root the node becomes
\* the root (TAG_FATHER), is a pre-root node (TAG_PROLOG, TAG_COMMENT) or is
\* an error; with a root it goes to start_node.  XMLNode_copy may fail, its
\* malloc of no bytes answering NULL or not
SAX1_Dispatch ==
    /\ pc = "dispatch"
    /\ i_attr' = 0
    /\ IF root.tag = NULL
       THEN CASE node.tag_type = TAG_FATHER ->
                   \E copied \in BOOLEAN :
                     IF copied
                     THEN /\ root' = XMLNode_copy1(node)
                          /\ pc' = IF sax.start_doc # "NULL" THEN "start_doc"
                                   ELSE Attr1Pc(node, ret, eof)
                          /\ UNCHANGED ret
                     ELSE /\ root' = XMLNode_free1(root)
                          /\ ret' = FALSE
                          /\ pc' = Attr1Pc(node, FALSE, eof)
              [] node.tag_type \in {TAG_PROLOG, TAG_COMMENT} ->
                   /\ pc' = IF sax.start_node # "NULL" THEN "pre_start"
                            ELSE IF sax.end_node # "NULL" THEN "pre_end"
                            ELSE Attr1Pc(node, ret, eof)
                   /\ UNCHANGED <<root, ret>>
              [] OTHER ->
                   /\ ret' = FALSE
                   /\ pc' = Attr1Pc(node, FALSE, eof)
                   /\ UNCHANGED root
       ELSE /\ pc' = IF sax.start_node # "NULL" THEN "start_node"
                     ELSE IF node.tag_type # TAG_FATHER
                             /\ sax.end_node # "NULL"
                     THEN "self_end"
                     ELSE Attr1Pc(node, ret, eof)
            /\ UNCHANGED <<root, ret>>
    /\ UNCHANGED <<file, fpos, eof, line, n0, txt_end, node, tag_type, exit,
                   sax, log, heap, doc, current, user_tags, result>>

\* line 807: if (sax->start_doc != NULL) exit = !sax->start_doc(&root);
SAX1_StartDoc ==
    /\ pc = "start_doc"
    /\ Callback1("start_doc", "START_DOC", root, NULL, Leave1Pc,
                 Attr1Pc(node, ret, eof))
    /\ UNCHANGED i_attr

\* line 812: exit = !sax->start_node(&node); what follows is line 813, the
\* answer not being looked at
SAX1_PreStartNode ==
    /\ pc = "pre_start"
    /\ LET after == IF sax.end_node # "NULL" THEN "pre_end" ELSE Leave1Pc
           next  == IF sax.end_node # "NULL" THEN "pre_end"
                    ELSE Attr1Pc(node, ret, eof)
       IN  Callback1("start_node", "START", node, NULL, after, next)
    /\ UNCHANGED i_attr

\* line 813: exit = !sax->end_node(&node);
SAX1_PreEndNode ==
    /\ pc = "pre_end"
    /\ Callback1("end_node", "END", node, NULL, Leave1Pc,
                 Attr1Pc(node, ret, eof))
    /\ UNCHANGED i_attr

\* lines 823-824
SAX1_StartNode ==
    /\ pc = "start_node"
    /\ Callback1("start_node", "START", node, NULL, Leave1Pc,
                 IF node.tag_type # TAG_FATHER /\ sax.end_node # "NULL"
                 THEN "self_end" ELSE Attr1Pc(node, ret, eof))
    /\ UNCHANGED i_attr

\* line 825
SAX1_SelfEndNode ==
    /\ pc = "self_end"
    /\ Callback1("end_node", "END", node, NULL, Leave1Pc,
                 Attr1Pc(node, ret, eof))
    /\ UNCHANGED i_attr

\* lines 830-833: one turn of the attribute loop, and the end of the body
SAX1_NewAttribute ==
    /\ pc = "new_attribute"
    /\ LET a == node.attributes[i_attr + 1]
       IN  Callback1("new_attribute", "ATTRIBUTE",
                     [tag |-> a.name, tag_type |-> node.tag_type], a.value,
                     Leave1Pc,
                     IF i_attr + 1 < Len(node.attributes)
                     THEN "new_attribute" ELSE LoopEnd1Pc(ret, eof))
    /\ i_attr' = i_attr + 1

\* line 838: if (sax->end_doc != NULL) sax->end_doc(&root);
SAX1_EndDoc ==
    /\ pc = "end_doc"
    /\ \E r \in BOOLEAN :
         log' = Append(log, Entry("end_doc", "END_DOC", root, NULL, r))
    /\ pc' = "return"
    /\ UNCHANGED <<file, fpos, eof, line, n0, txt_end, node, tag_type, ret,
                   exit, sax, heap, doc, current, user_tags, result, root,
                   i_attr>>

\* lines 836-842
SAX1_Return ==
    /\ pc = "return"
    /\ pc' = "done"
    /\ root' = XMLNode_free1(root)
    /\ node' = XMLNode_free1(node)
    /\ result' = IF ret THEN "true" ELSE "false"
    /\ UNCHANGED <<file, fpos, eof, line, n0, txt_end, tag_type, ret, exit,
                   sax, log, heap, doc, current, user_tags, i_attr>>

\* <a>  </a>  <b x="1"/>  tx  <!--a>  b-->  <?p?>
Sax1Tokens ==
    { <<"<", "a", ">">>, <<"<", "/", "a", ">">>,
      <<"<", "b", " ", "x", "=", "\"", "1", "\"", "/", ">">>,
      <<"t", "x">>, <<"<", "!", "-", "-", "a", ">">>,
      <<"b", "-", "-", ">">>, <<"<", "?", "p", "?", ">">> }

\* the SAX_Callbacks of the first generation: any subset of the slots
UserSax1 ==
    [new_text : {"NULL", "user"}, start_doc : {"NULL", "user"},
     start_node : {"NULL", "user"}, end_node : {"NULL", "user"},
     new_attribute : {"NULL", "user"}, end_doc : {"NULL", "user"}]

InitSAX1 ==
    \E f \in Inputs(Sax1Tokens, MaxSaxTokens) :
      \E s \in UserSax1 : InitParse(f, s)

NextSAX1 ==
    \/ SAX1_ReadLine
    \/ SAX1_NewText
    \/ SAX1_Parse
    \/ SAX1_Continue
    \/ SAX1_EndNode
    \/ SAX1_Dispatch
    \/ SAX1_StartDoc
    \/ SAX1_PreStartNode
    \/ SAX1_PreEndNode
    \/ SAX1_StartNode
    \/ SAX1_SelfEndNode
    \/ SAX1_NewAttribute
    \/ SAX1_EndDoc
    \/ SAX1_Return

\* XMLDoc_parse_file_SAX of src/sxmlc.c with a user's listener
SpecSAX1 == InitSAX1 /\ [][NextSAX1]_vars

(* ------------------------------------------------------------------ *)
(* The classifier and the user tag registry, called directly          *)
(* ------------------------------------------------------------------ *)

\* XML_register_user_tag(tag_type, start, end) on the registry tags; ub: end
\* is empty and end[le-1] is read before the string
XML_register_user_tag(kind, start, end, tags) ==
    IF kind < TAG_USER
    THEN [ret |-> FALSE, tags |-> tags, ub |-> FALSE]
    ELSE IF start = NULL \/ end = NULL \/ At(start, 0) # "<"
    THEN [ret |-> FALSE, tags |-> tags, ub |-> FALSE]
    ELSE IF Len(end) = 0
    THEN [ret |-> FALSE, tags |-> tags, ub |-> TRUE]
    ELSE IF At(end, Len(end) - 1) # ">"
    THEN [ret |-> FALSE, tags |-> tags, ub |-> FALSE]
    ELSE [ret  |-> TRUE,
          tags |-> Append(tags, [tag_type |-> kind, start |-> start,
                                 end |-> end]),
          ub   |-> FALSE]

\* the arguments the registry is called with
Kinds == {TAG_USER - 1, TAG_USER}
Starts == {NULL, <<"{", "{">>, <<"<", "{">>}
Ends == {<<>>, <<"}", "}">>, <<"}", ">">>, <<">">>}

\* a call of XML_register_user_tag; where the call is undefined (an empty
\* end) the byte read before the string may or may not be a '>'
RegisterUserTag ==
    /\ pc = "api"
    /\ Len(user_tags) < MaxUserTags
    /\ \E kind \in Kinds, start \in Starts, end \in Ends :
         LET r == XML_register_user_tag(kind, start, end, user_tags)
         IN  \E accepted \in IF r.ub THEN BOOLEAN ELSE {r.ret} :
               /\ user_tags' =
                    IF accepted
                    THEN Append(user_tags, [tag_type |-> kind,
                                            start |-> start, end |-> end])
                    ELSE user_tags
               /\ log' = <<[cb |-> "XML_register_user_tag",
                            tag_type |-> kind, start |-> start, end |-> end,
                            ub |-> r.ub, r |-> accepted]>>
    /\ UNCHANGED <<file, fpos, eof, line, n0, txt_end, node, tag_type, ret,
                   exit, pc, sax, heap, doc, current, result, root, i_attr>>

\* name="value" fragments, joined and closed as a self-closing tag <a .../>
RECURSIVE RenderAttrs(_)
RenderAttrs(as) ==
    IF as = <<>> THEN <<>>
    ELSE <<" ">> \o Head(as).name \o <<"=", "\"">> \o Head(as).value
         \o <<"\"">> \o RenderAttrs(Tail(as))

RenderSelf(name, as) == <<"<">> \o name \o RenderAttrs(as) \o <<"/", ">">>

AttrNames == {<<"x">>, <<"y">>}
AttrValues == {<<>>, <<"1">>, <<"a", " ", "b">>}

\* the attribute lists of at most MaxAttrs attributes
AttrLists ==
    UNION {[1..k -> [name : AttrNames, value : AttrValues]] : k \in 0..MaxAttrs}

\* </>  <>  </ a>  < x="1">  <a>  </a>  <a b>  <a x="1>  <a x=1>  <!--c-->
\* <?p?>  <{x}>  <{x>  {{x}}  tx
TagStrings ==
    { <<"<", "/", ">">>, <<"<", ">">>, <<"<", "/", " ", "a", ">">>,
      <<"<", " ", "x", "=", "\"", "1", "\"", ">">>,
      <<"<", "a", ">">>, <<"<", "/", "a", ">">>, <<"<", "a", " ", "b", ">">>,
      <<"<", "a", " ", "b", " ", "x", "=", "\"", "1", "\"", ">">>,
      <<"<", "a", " ", "x", "=", "\"", "1", ">">>,
      <<"<", "a", " ", "x", "=", "1", ">">>,
      <<"<", "!", "-", "-", "c", "-", "-", ">">>,
      <<"<", "?", "p", "?", ">">>,
      <<"<", "?", ">">>, <<"<", "!", "-", "-", ">">>,
      <<"<", "!", "-", "-", "-", ">">>,
      <<"<", "{", "x", "}", ">">>, <<"<", "{", "x", ">">>,
      <<"{", "{", "x", "}", "}">>, <<"t", "x">> }

\* what a call of a classifier on str answered
Classified(cb, str, c) ==
    [cb |-> cb, str |-> str, ret |-> c.ret, tag |-> c.node.tag,
     tag_type |-> c.node.tag_type, attributes |-> c.node.attributes,
     ub |-> c.ub]

\* one call of XML_parse_1string(str, &node) on an initialised node, str
\* being one of strs
Classify(strs) ==
    /\ pc = "api"
    /\ pc' = "called"
    /\ \E str \in strs :
         log' = <<Classified("XML_parse_1string", str,
                             XML_parse_1string(str, XMLNode_init, user_tags))>>
    /\ UNCHANGED <<file, fpos, eof, line, n0, txt_end, node, tag_type, ret,
                   exit, sax, heap, doc, current, user_tags, result, root,
                   i_attr>>

\* one call of _parse_XML_1string(str, &node) of src/sxmlc.c
Classify1(strs) ==
    /\ pc = "api"
    /\ pc' = "called"
    /\ \E str \in strs :
         log' = <<Classified("_parse_XML_1string", str,
                             _parse_XML_1string(str, XMLNode_init))>>
    /\ UNCHANGED <<file, fpos, eof, line, n0, txt_end, node, tag_type, ret,
                   exit, sax, heap, doc, current, user_tags, result, root,
                   i_attr>>

ClassifyTag == Classify(TagStrings)

ClassifyTag1 == Classify1(TagStrings)

\* x="1"  x="1  x="a b  x=1  x  x ="1"  x=""  x="  x 1
AttrFragments ==
    { <<"x", "=", "\"", "1", "\"">>, <<"x", "=", "\"", "1">>,
      <<"x", "=", "\"", "a", " ", "b">>, <<"x", "=", "1">>, <<"x">>,
      <<"x", " ", "=", "\"", "1", "\"">>, <<"x", "=", "\"", "\"">>,
      <<"x", "=", "\"">>, <<"x", " ", "1">> }

\* a call of XML_parse_attribute(str, &attr)
ParseAttribute ==
    /\ pc = "api"
    /\ \E str \in AttrFragments :
         LET a == XML_parse_attribute(str)
         IN  log' = <<[cb |-> "XML_parse_attribute", str |-> str,
                       ret |-> a.ret, name |-> a.attr.name,
                       value |-> a.attr.value, ub |-> a.ub]>>
    /\ pc' = "called"
    /\ UNCHANGED <<file, fpos, eof, line, n0, txt_end, node, tag_type, ret,
                   exit, sax, heap, doc, current, user_tags, result, root,
                   i_attr>>

\* a program that calls the library's functions, nothing registered yet
InitApi ==
    /\ file = <<>>
    /\ fpos = 0
    /\ eof = FALSE
    /\ line = <<>>
    /\ n0 = 0
    /\ txt_end = 0
    /\ node = XMLNode_init
    /\ tag_type = TAG_NONE
    /\ ret = TRUE
    /\ exit = FALSE
    /\ pc = "api"
    /\ sax = DomSax
    /\ log = <<>>
    /\ heap = <<>>
    /\ doc = XMLDoc_init
    /\ current = 0
    /\ user_tags = <<>>
    /\ result = "none"
    /\ root = XMLNode_init
    /\ i_attr = 0

NextTag ==
    \/ RegisterUserTag
    \/ ClassifyTag
    \/ ClassifyTag1

\* user tags are registered, then one tag is classified
SpecTag == InitApi /\ [][NextTag]_vars

\* the self-closing tags <a .../> and <bc .../> with quoted attributes
ElemNames == {<<"a">>, <<"b", "c">>}
SelfClosing == {RenderSelf(nm, as) : nm \in ElemNames, as \in AttrLists}

ClassifySelf == Classify(SelfClosing)

ClassifySelf1 == Classify1(SelfClosing)

NextAttr ==
    \/ ClassifySelf
    \/ ClassifySelf1
    \/ ParseAttribute

\* one tag with attributes is classified, or one attribute is decoded
SpecAttr == InitApi /\ [][NextAttr]_vars

(* ------------------------------------------------------------------ *)
(* The node functions, called directly                                *)
(* ------------------------------------------------------------------ *)

\* XMLNode_search_attribute: the lowest index from isearch on of an active
\* attribute with that name, -1 when there is none or an argument is refused
XMLNode_search_attribute(nd, attr_name, isearch) ==
    IF \/ attr_name = NULL
       \/ At(attr_name, 0) = NUL
       \/ isearch < 0
       \/ isearch > Len(nd.attributes)
    THEN -1
    ELSE LET hits == {i \in isearch .. Len(nd.attributes) - 1 :
                        /\ nd.attributes[i + 1].active
                        /\ nd.attributes[i + 1].name = attr_name}
         IN  IF hits = {} THEN -1 ELSE Min(hits)

\* XMLNode_set_attribute with a non-NULL attr_value: the value of the
\* attribute the search finds is replaced; otherwise an attribute is appended
\* whose name and value are written and whose `active` is left as realloc
\* returned it (uninit)
XMLNode_set_attribute(nd, attr_name, attr_value, uninit) ==
    IF attr_name = NULL \/ At(attr_name, 0) = NUL
    THEN [ret |-> -1, node |-> nd]
    ELSE LET i == XMLNode_search_attribute(nd, attr_name, 0)
         IN  IF i >= 0
             THEN [ret  |-> Len(nd.attributes),
                   node |-> [nd EXCEPT !.attributes[i + 1].value = attr_value]]
             ELSE [ret  |-> Len(nd.attributes) + 1,
                   node |-> [nd EXCEPT !.attributes =
                               Append(@, [name   |-> attr_name,
                                          value  |-> attr_value,
                                          active |-> uninit])]]

\* the attributes without the one at index i_at (memmove, then realloc)
WithoutAttribute(nd, i_at) ==
    [nd EXCEPT !.attributes =
        Sub(@, 0, i_at) \o Sub(@, i_at + 1, Len(@) - i_at - 1)]

\* XMLNode_remove_attribute of src/src/sxmlc.c
XMLNode_remove_attribute(nd, i_at) ==
    IF i_at < 0 \/ i_at >= Len(nd.attributes)
    THEN [ret |-> -1, node |-> nd]
    ELSE [ret |-> Len(nd.attributes) - 1, node |-> WithoutAttribute(nd, i_at)]

\* XMLNode_remove_attribute of src/sxmlc.c: iattr <= 0 is refused
XMLNode_remove_attribute1(nd, iattr) ==
    IF iattr <= 0 \/ iattr >= Len(nd.attributes)
    THEN [ret |-> -1, node |-> nd]
    ELSE [ret |-> Len(nd.attributes) - 1, node |-> WithoutAttribute(nd, iattr)]

\* XMLNode_search_attribute of src/sxmlc.c, where attributes have no `active`
XMLNode_search_attribute1(nd, attr_name, isearch) ==
    IF \/ attr_name = NULL
       \/ At(attr_name, 0) = NUL
       \/ isearch < 0
       \/ isearch > Len(nd.attributes)
    THEN -1
    ELSE LET hits == {i \in isearch .. Len(nd.attributes) - 1 :
                        nd.attributes[i + 1].name = attr_name}
         IN  IF hits = {} THEN -1 ELSE Min(hits)

\* the two attribute loops of XMLNode_equal: every active attribute of n1
\* is found by name among the active attributes of n2
AllFound(n1, n2) ==
    \A i \in 1 .. Len(n1.attributes) :
        n1.attributes[i].active
        => LET j == XMLNode_search_attribute(n2, n1.attributes[i].name, 0)
           IN  j >= 0 /\ n1.attributes[i].name = n2.attributes[j + 1].name

\* XMLNode_equal on two nodes with tags; same: node1 == node2 as pointers
XMLNode_equal(node1, node2, same) ==
    IF same THEN TRUE
    ELSE IF node1.tag # node2.tag THEN FALSE
    ELSE AllFound(node1, node2) /\ AllFound(node2, node1)

\* XMLNode_copy(dst, src, true) of src/src/sxmlc.c on a src with n_children
\* children: the array of child pointers is allocated and not written, so
\* with a child the first recursive call gets an uninitialized dst (ub);
\* without one malloc(0) gives NULL (copy_err) or a pointer (malloc0)
XMLNode_copy_children(src, n_children, malloc0) ==
    IF n_children > 0
    THEN [ret |-> FALSE, node |-> XMLNode_copy(XMLNode_init), ub |-> TRUE]
    ELSE IF malloc0
    THEN [ret |-> TRUE, node |-> XMLNode_copy(src), ub |-> FALSE]
    ELSE [ret |-> FALSE, node |-> XMLNode_copy(XMLNode_init), ub |-> FALSE]

\* the nodes the functions are called on: an element with up to MaxAttrs
\* attributes, active or not, two of them possibly of one name
NodeAttrNames == {<<>>, <<"x">>, <<"y">>}
NodeAttrValues == {<<"1">>, <<"2">>}
NodeAttrLists ==
    UNION {[1 .. k -> [name : NodeAttrNames, value : NodeAttrValues,
                       active : BOOLEAN]] : k \in 0 .. MaxAttrs}
Nodes ==
    {[tag |-> <<"a">>, text |-> t, tag_type |-> TAG_FATHER, attributes |-> as] :
        t \in {NULL, <<"t">>}, as \in NodeAttrLists}

\* the second operand of XMLNode_equal
OtherNodes ==
    {[tag |-> t, text |-> NULL, tag_type |-> TAG_FATHER, attributes |-> as] :
        t \in {<<"a">>, <<"b">>},
        as \in UNION {[1 .. k -> [name : NodeAttrNames, value : {<<"1">>},
                                  active : BOOLEAN]] : k \in 0 .. MaxAttrs}}

\* one call on root; what it was given and what it gave is logged
Called(entry, after) ==
    /\ pc = "api"
    /\ pc' = "called"
    /\ log' = <<entry>>
    /\ root' = after
    /\ UNCHANGED <<file, fpos, eof, line, n0, txt_end, node, tag_type, ret,
                   exit, sax, heap, doc, current, user_tags, result, i_attr>>

SetAttribute ==
    \E attr_name \in NodeAttrNames, attr_value \in NodeAttrValues,
       uninit \in BOOLEAN :
        LET s == XMLNode_set_attribute(root, attr_name, attr_value, uninit)
        IN  Called([cb |-> "XMLNode_set_attribute", before |-> root,
                    name |-> attr_name, value |-> attr_value,
                    ret |-> s.ret, after |-> s.node,
                    found |-> XMLNode_search_attribute(s.node, attr_name, 0)],
                   s.node)

\* XMLNode_remove_attribute(root, i), then XMLNode_search_attribute for the
\* name that was at i
RemoveAttribute ==
    \E i_at \in -1 .. MaxAttrs :
        LET r == XMLNode_remove_attribute(root, i_at)
        IN  Called([cb |-> "XMLNode_remove_attribute", gen |-> 2,
                    before |-> root, i |-> i_at, ret |-> r.ret,
                    after |-> r.node,
                    found |-> IF i_at >= 0 /\ i_at < Len(root.attributes)
                              THEN XMLNode_search_attribute(
                                       r.node, root.attributes[i_at + 1].name, 0)
                              ELSE -1],
                   r.node)

RemoveAttribute1 ==
    \E iattr \in -1 .. MaxAttrs :
        LET r == XMLNode_remove_attribute1(root, iattr)
        IN  Called([cb |-> "XMLNode_remove_attribute", gen |-> 1,
                    before |-> root, i |-> iattr, ret |-> r.ret,
                    after |-> r.node,
                    found |-> IF iattr >= 0 /\ iattr < Len(root.attributes)
                              THEN XMLNode_search_attribute1(
                                       r.node, root.attributes[iattr + 1].name, 0)
                              ELSE -1],
                   r.node)

\* XMLNode_equal(root, other) and XMLNode_equal(other, root)
Equal ==
    \E other \in OtherNodes :
        Called([cb |-> "XMLNode_equal", a |-> root, b |-> other,
                same |-> FALSE,
                ret |-> XMLNode_equal(root, other, FALSE),
                back |-> XMLNode_equal(other, root, FALSE)],
               root)

\* XMLNode_equal(root, root)
EqualSelf ==
    Called([cb |-> "XMLNode_equal", a |-> root, b |-> root, same |-> TRUE,
            ret |-> XMLNode_equal(root, root, TRUE),
            back |-> XMLNode_equal(root, root, TRUE)],
           root)

\* XMLNode_copy(dst, root, deep) of src/src/sxmlc.c, root holding n_children
\* children; undefined behaviour may end in either answer
CopyNode ==
    \E deep \in BOOLEAN, n_children \in 0 .. 1, malloc0 \in BOOLEAN,
       answer \in BOOLEAN :
        LET c == IF deep
                 THEN XMLNode_copy_children(root, n_children, malloc0)
                 ELSE [ret |-> TRUE, node |-> XMLNode_copy(root), ub |-> FALSE]
        IN  Called([cb |-> "XMLNode_copy", gen |-> 2, src |-> root,
                    n_children |-> n_children, deep |-> deep,
                    ret |-> IF c.ub THEN answer ELSE c.ret,
                    dst |-> c.node, ub |-> c.ub],
                   root)

\* XMLNode_copy(dst, root, false) of src/sxmlc.c
CopyNode1 ==
    Called([cb |-> "XMLNode_copy", gen |-> 1, src |-> root,
            n_children |-> 0, deep |-> FALSE, ret |-> TRUE,
            dst |-> [tag        |-> XMLNode_copy1(root).tag,
                     text       |-> XMLNode_copy1(root).text,
                     attributes |-> XMLNode_copy1(root).attributes,
                     children   |-> <<>>],
            ub |-> FALSE],
           root)

\* a program that holds one node
InitNode ==
    /\ file = <<>>
    /\ fpos = 0
    /\ eof = FALSE
    /\ line = <<>>
    /\ n0 = 0
    /\ txt_end = 0
    /\ node = XMLNode_init
    /\ tag_type = TAG_NONE
    /\ ret = TRUE
    /\ exit = FALSE
    /\ pc = "api"
    /\ sax = DomSax
    /\ log = <<>>
    /\ heap = <<>>
    /\ doc = XMLDoc_init
    /\ current = 0
    /\ user_tags = <<>>
    /\ result = "none"
    /\ root \in Nodes
    /\ i_attr = 0

NextNode ==
    \/ SetAttribute
    \/ RemoveAttribute
    \/ RemoveAttribute1
    \/ Equal
    \/ EqualSelf
    \/ CopyNode
    \/ CopyNode1

\* one node function is called on one node
SpecNode == InitNode /\ [][NextNode]_vars

(* ------------------------------------------------------------------ *)
(* Walking a tree of nodes                                            *)
(* ------------------------------------------------------------------ *)

\* XMLNode_next_sibling: nodes are indices in the heap h, 0 for NULL
XMLNode_next_sibling(h, nd) ==
    IF nd = 0 \/ h[nd].father = 0
    THEN 0
    ELSE LET father == h[nd].father
             n      == Len(h[father].children)
             at     == {i \in 0 .. n - 1 : h[father].children[i + 1] = nd}
             i      == (IF at = {} THEN n ELSE Min(at)) + 1
         IN  IF i < n THEN h[father].children[i + 1] ELSE 0

\* _XMLNode_next that gives up where the next uncle is looked for
_XMLNode_next_NoUncle(h, nd, in_children) ==
    IF nd = 0 THEN 0
    ELSE IF in_children /\ Len(h[nd].children) > 0 THEN h[nd].children[1]
    ELSE XMLNode_next_sibling(h, nd)

\* _XMLNode_next: the first child, else the next sibling, else what follows
\* the father outside its children
RECURSIVE _XMLNode_next(_, _, _)
_XMLNode_next(h, nd, in_children) ==
    IF nd = 0 THEN 0
    ELSE IF in_children /\ Len(h[nd].children) > 0 THEN h[nd].children[1]
    ELSE IF XMLNode_next_sibling(h, nd) # 0 THEN XMLNode_next_sibling(h, nd)
    ELSE _XMLNode_next(h, h[nd].father, FALSE)

XMLNode_next(h, nd) == _XMLNode_next(h, nd, TRUE)

\* the trees of up to MaxNodes nodes: node 1 is the root, every other node
\* was added after its father, and the children of a node are in the order
\* XMLNode_add_child appended them
Trees ==
    UNION {
        {[k \in 1 .. n |->
            [father   |-> IF k = 1 THEN 0 ELSE f[k],
             children |->
                LET cs == {c \in 2 .. n : f[c] = k}
                IN  CHOOSE s \in [1 .. Cardinality(cs) -> cs] :
                        \A i, j \in 1 .. Cardinality(cs) : i < j => s[i] < s[j]]] :
         f \in {g \in [2 .. n -> 1 .. n] : \A k \in 2 .. n : g[k] < k}} :
        n \in 1 .. MaxNodes}

\* node = XMLNode_next(node), log keeping the nodes the walk was at
WalkNext ==
    /\ pc = "api"
    /\ current # 0
    /\ current' = XMLNode_next(heap, current)
    /\ log' = Append(log, current')
    /\ UNCHANGED <<file, fpos, eof, line, n0, txt_end, node, tag_type, ret,
                   exit, pc, sax, heap, doc, user_tags, result, root, i_attr>>

\* a program that holds a tree and stands at its root
InitTree ==
    /\ file = <<>>
    /\ fpos = 0
    /\ eof = FALSE
    /\ line = <<>>
    /\ n0 = 0
    /\ txt_end = 0
    /\ node = XMLNode_init
    /\ tag_type = TAG_NONE
    /\ ret = TRUE
    /\ exit = FALSE
    /\ pc = "api"
    /\ sax = DomSax
    /\ heap \in Trees
    /\ log = <<1>>
    /\ doc = XMLDoc_init
    /\ current = 1
    /\ user_tags = <<>>
    /\ result = "none"
    /\ root = XMLNode_init
    /\ i_attr = 0

\* for (node = root; node != NULL; node = XMLNode_next(node))
SpecTree == InitTree /\ [][WalkNext]_vars

(* ------------------------------------------------------------------ *)
(* Linking nodes into a tree                                          *)
(* ------------------------------------------------------------------ *)

\* XMLNode_add_child: _add_node appends the pointer to node->children and
\* nothing else is written
XMLNode_add_child(h, nd, child) ==
    [h EXCEPT ![nd].children = Append(@, child)]

\* the nodes XMLNode_free(nd) visits: nd and what its children lead to
RECURSIVE Under(_, _)
Under(h, nd) ==
    {nd} \cup UNION {Under(h, h[nd].children[i]) :
                        i \in 1 .. Len(h[nd].children)}

\* XMLNode_remove_child with 0 <= ichild < n_children: the child is freed
\* (its array of children and theirs are released), then taken out of
\* node->children
XMLNode_remove_child(h, nd, ichild) ==
    LET child == h[nd].children[ichild + 1]
    IN  [k \in DOMAIN h |->
            IF k \in Under(h, child) THEN [h[k] EXCEPT !.children = <<>>]
            ELSE IF k = nd
            THEN [h[k] EXCEPT !.children =
                     Sub(@, 0, ichild) \o Sub(@, ichild + 1, Len(@) - ichild - 1)]
            ELSE h[k]]

\* one more call on the tree, MaxOps at most, log keeping the calls
Linked(entry, h) ==
    /\ pc = "api"
    /\ Len(log) <= MaxOps
    /\ heap' = h
    /\ log' = Append(log, entry)
    /\ UNCHANGED <<file, fpos, eof, line, n0, txt_end, node, tag_type, ret,
                   exit, pc, sax, doc, current, user_tags, result, root,
                   i_attr>>

\* child = XMLNode_alloc(1); XMLNode_add_child(nd, child): XMLNode_init does
\* not write child->father, which is what malloc left there (uninit)
AddChild ==
    \E nd \in 1 .. Len(heap) : \E uninit \in {0, 1, nd} :
        Linked([cb |-> "XMLNode_add_child", node |-> nd,
                child |-> Len(heap) + 1],
               XMLNode_add_child(
                   Append(heap, [father |-> uninit, children |-> <<>>]),
                   nd, Len(heap) + 1))

RemoveChild ==
    \E nd \in 1 .. Len(heap) : \E ichild \in 0 .. Len(heap[nd].children) - 1 :
        Linked([cb |-> "XMLNode_remove_child", node |-> nd,
                child |-> heap[nd].children[ichild + 1]],
               XMLNode_remove_child(heap, nd, ichild))

\* dst = XMLNode_alloc(1); XMLNode_copy(dst, src, false)
CopyShallow ==
    \E src \in 1 .. Len(heap) :
        LET dst == XMLNode_copy(heap[src] @@ XMLNode_init)
        IN  Linked([cb |-> "XMLNode_copy", node |-> src,
                    child |-> Len(heap) + 1],
                   Append(heap, [father   |-> dst.father,
                                 children |-> dst.children]))

NextLink ==
    \/ AddChild
    \/ RemoveChild
    \/ CopyShallow

\* a tree as a DOM parse builds it, then up to MaxOps calls that change it
SpecLink == InitTree /\ [][NextLink]_vars

(* ------------------------------------------------------------------ *)
(* What the listeners were handed                                     *)
(* ------------------------------------------------------------------ *)

HasNonSpace(text) == SkipSpaces(text, 0) < Len(text)

\* a char* as a string, NULL as the empty one
Str(t) == IF t = NULL THEN <<>> ELSE t

Elements == {TAG_FATHER, TAG_SELF}

\* self-closing elements and auxiliary nodes
SelfOrAux == {TAG_SELF, TAG_INSTR, TAG_COMMENT, TAG_CDATA, TAG_DOCTYPE}

\* the Start events handed to the start callback before the i-th callback
StartsBefore(i) ==
    Cardinality({j \in 1..(i - 1) : log[j].cb = "start_node"})

\* the non-whitespace text runs seen while heap node k was the cursor, in
\* document order, concatenated
RunsAt(k) ==
    LET Run(e) == e.cb = "new_text" /\ e.cur = k /\ HasNonSpace(e.text)
        runs   == SelectSeq(log, Run)
    IN  Flatten([i \in 1..Len(runs) |-> runs[i].text])

(* ------------------------------------------------------------------ *)
(* Claims                                                             *)
(* ------------------------------------------------------------------ *)

\* C1: an End event whose closing tag name differs from the tag name of the
\* cursor is a fatal structural error: nothing is dispatched after it, the
\* cursor does not move to its father, and the parse returns failure.
C1_EndNameMustMatch ==
    \A i \in 1..Len(log) :
      (/\ log[i].cb = "end_node"
       /\ log[i].tag_type = TAG_END
       /\ log[i].cur # 0
       /\ log[i].tag # log[i].cur_tag)
      => /\ i = Len(log)
         /\ pc # "done" => current = log[i].cur
         /\ pc = "done" => result = "false"

\* C2: after a successful DOM parse the text of every element is the
\* concatenation, in document order, of the non-whitespace text runs that
\* appeared while it was the cursor (runs of one character included).
C2_TextIsConcatenation ==
    (pc = "done" /\ result = "true")
    => \A k \in 1..Len(heap) : Str(heap[k].text) = RunsAt(k)

\* C3: a non-whitespace text run met while there is no cursor makes the DOM
\* parse return failure, with the document left empty.
C3_TextBeforeRootFails ==
    (/\ pc = "done"
     /\ \E i \in 1..Len(log) :
          log[i].cb = "new_text" /\ log[i].cur = 0 /\ HasNonSpace(log[i].text))
    => /\ result = "false"
       /\ doc = XMLDoc_init
       /\ heap = <<>>

\* C4: the Start of an element while the cursor is none and a root exists is
\* a fatal error: nothing is dispatched after it, no node is inserted for it
\* (top-level or as a child), and the parse returns failure.
C4_SingleRoot ==
    \A i \in 1..Len(log) :
      (/\ log[i].cb = "start_node"
       /\ log[i].cur = 0
       /\ log[i].tag_type \in Elements
       /\ \E j \in 1..(i - 1) :
            /\ log[j].cb = "start_node"
            /\ log[j].cur = 0
            /\ log[j].tag_type = TAG_FATHER)
      => /\ i = Len(log)
         /\ pc # "done" => Len(heap) = StartsBefore(i)
         /\ pc = "done" => result = "false"

\* C5: a parse returns success only if every opened element was closed: no
\* element is still open (the cursor is none) when it returns true.
C5_UnclosedIsError ==
    (pc = "done" /\ result = "true") => current = 0

\* the callbacks of the catch-all slot, and those of the specific slots
CatchAll == LET T(e) == e.cb = "all_event" IN SelectSeq(log, T)
Specific == LET T(e) == e.cb # "all_event" IN SelectSeq(log, T)

\* some callback said stop
Stopped == \E i \in 1..Len(log) : ~log[i].r

SameEvent(e, f) ==
    /\ e.ev = f.ev
    /\ e.tag = f.tag
    /\ e.tag_type = f.tag_type
    /\ e.text = f.text

\* in the event sequence X every Start of a self-closing or auxiliary node
\* is directly followed by the End of the same node; when it is the last
\* event, a callback said stop or the End is still to be dispatched
PairedIn(X, pending) ==
    \A i \in 1..Len(X) :
      (X[i].ev = "START" /\ X[i].tag_type \in SelfOrAux)
      => IF i < Len(X)
         THEN /\ X[i + 1].ev = "END"
              /\ X[i + 1].tag = X[i].tag
              /\ X[i + 1].tag_type = X[i].tag_type
         ELSE Stopped \/ pc \in pending

\* C7: for every self-closing element and every auxiliary node the Start is
\* raised and then the End of the same node, with no event in between, on
\* the specific callbacks and on the catch-all; no End is raised for a
\* start-with-children node.
C7_StartThenEnd ==
    /\ (sax.start_node # "NULL" /\ sax.end_node # "NULL")
       => PairedIn(Specific, {"all_start", "self_end"})
    /\ sax.all_event # "NULL"
       => PairedIn(CatchAll, {"self_end", "self_all_end"})
    /\ \A i \in 1..Len(log) :
         ~(log[i].ev = "END" /\ log[i].tag_type = TAG_FATHER)

\* a comment read in two pieces went Start, catch-all Start, End, catch-all
\* End, and a start-with-children element got its Start
C7_Witness ==
    /\ sax.start_node # "NULL" /\ sax.end_node # "NULL"
    /\ sax.all_event # "NULL"
    /\ \E i \in 1..(Len(log) - 3) :
         /\ log[i].cb = "start_node" /\ log[i].tag_type = TAG_COMMENT
         /\ log[i].tag = <<"a", ">", "b">>
         /\ log[i + 1].cb = "all_event" /\ log[i + 1].ev = "START"
         /\ log[i + 2].cb = "end_node" /\ log[i + 2].tag = log[i].tag
         /\ log[i + 3].cb = "all_event" /\ log[i + 3].ev = "END"
    /\ \E i \in 1..Len(log) :
         log[i].cb = "start_node" /\ log[i].tag_type = TAG_FATHER

Last(X) == X[Len(X)]

\* C8: a registered catch-all receives every event, with the event kind and
\* the node or text of the event: right after each specific callback that
\* did not stop, and also when the specific slot is unset (the text before
\* the tag being classified, and the last event of each tag dispatched, have
\* reached it; the End of a node that is no end tag follows its Start).
C8_CatchAllSeesAll ==
    sax.all_event # "NULL"
    => /\ \A i \in 1..Len(log) :
            (log[i].cb # "all_event" /\ log[i].r)
            => IF i < Len(log)
               THEN log[i + 1].cb = "all_event" /\ SameEvent(log[i + 1], log[i])
               ELSE pc \in {"all_text", "all_end", "all_start", "self_all_end"}
       /\ (pc = "parse" /\ LineText # <<>>)
          => /\ log # <<>>
             /\ Last(log).cb = "all_event"
             /\ Last(log).ev = "TEXT"
             /\ Last(log).text = AllEventLine
       /\ (pc = "loop" /\ n0 # 0)
          => /\ log # <<>>
             /\ Last(log).cb = "all_event"
             /\ Last(log).ev = IF node.tag_type = TAG_FATHER THEN "START"
                               ELSE "END"
             /\ Last(log).tag = node.tag
             /\ Last(log).tag_type = node.tag_type
       /\ \A i \in 1..Len(CatchAll) :
            (CatchAll[i].ev = "END" /\ CatchAll[i].tag_type # TAG_END)
            => /\ i > 1
               /\ CatchAll[i - 1].ev = "START"
               /\ CatchAll[i - 1].tag = CatchAll[i].tag
               /\ CatchAll[i - 1].tag_type = CatchAll[i].tag_type

\* with the text slot unset the catch-all got a text run, then the Start of
\* an element right after the start callback, and the End of an end tag
C8_Witness ==
    /\ sax = [new_text |-> "NULL", start_node |-> "user",
              end_node |-> "NULL", all_event |-> "user"]
    /\ \E i \in 1..(Len(log) - 3) :
         /\ log[i].cb = "all_event" /\ log[i].ev = "TEXT"
         /\ log[i].text = <<"t", "x">>
         /\ log[i + 1].cb = "start_node"
         /\ log[i + 2].cb = "all_event" /\ log[i + 2].ev = "START"
         /\ log[i + 2].tag = log[i + 1].tag
         /\ log[i + 3].cb = "all_event" /\ log[i + 3].ev = "END"
         /\ log[i + 3].tag_type = TAG_END

\* the tag text str is start + payload + end for a pair of _spec of kind tt
IsSpecial(str, tt, payload) ==
    \E k \in 1..NB_SPECIAL_TAGS :
      /\ _spec[k].tag_type = tt
      /\ str = _spec[k].start \o payload \o _spec[k].end

\* C9: a tag classified Partial is read on and classified again until it is
\* complete: the loop is left only with the whole special tag classified
\* (the payload being all the text between the delimiters), or, the input
\* being exhausted before the end delimiter, with an error.
C9_PartialIsCompleted ==
    [][pc = "partial"
       => \/ pc' = "partial"
          \/ pc' = "return" /\ ~ret'
          \/ /\ ret'
             /\ node'.tag_type = tag_type'
             /\ IsSpecial(From(line', txt_end'), tag_type', node'.tag)]_vars

\* C10: whenever the classifier answers Malformed, at the first
\* classification of a tag or at one made during continuation, the parse is
\* aborted: it returns failure and no callback is raised for the tag.
C10_MalformedAborts ==
    [][(pc \in {"parse", "partial"} /\ tag_type' = 0)
       => (pc' = "return" /\ ~ret')]_vars

\* C6: once a text, start, end, catch-all or attribute callback has
\* answered stop, no further callback is invoked (the document-end
\* notification of src/sxmlc.c is left out of the count), and the parse
\* returns to its caller without an error.
C6_StopIsHonoured ==
    \A k \in 1..Len(log) :
      (~log[k].r /\ log[k].cb # "end_doc")
      => /\ \A m \in (k + 1)..Len(log) : log[m].cb = "end_doc"
         /\ pc = "done" => result = "true"

\* the last call was one of a classifier, and nothing undefined happened
ClassifiedBy(cbs) == log # <<>> /\ log[1].cb \in cbs /\ ~log[1].ub

\* C11: a generic tag whose element name is empty is Malformed: neither
\* classifier ever answers End, Start or self-closing with an empty name.
C11_EmptyNameIsMalformed ==
    ClassifiedBy({"XML_parse_1string", "_parse_XML_1string"})
    => (log[1].ret \in {TAG_END, TAG_FATHER, TAG_SELF} => log[1].tag # <<>>)

\* str is start + payload + end for the pair t
IsPairOf(str, t) ==
    /\ Len(str) >= Len(t.start) + Len(t.end)
    /\ strncmp_eq(str, 0, t.start)
    /\ strncmp_eq(str, Len(str) - Len(t.end), t.end)

PayloadOf(str, t) ==
    Sub(str, Len(t.start), Len(str) - Len(t.start) - Len(t.end))

\* a pair tried before the k-th user tag takes str: a built-in start
\* delimiter, "<!DOCTYPE", or the start delimiter of an earlier user tag
TakenBefore(str, k) ==
    \/ \E j \in 1..NB_SPECIAL_TAGS : strncmp_eq(str, 0, _spec[j].start)
    \/ strncmp_eq(str, 0, <<"<", "!", "D", "O", "C", "T", "Y", "P", "E">>)
    \/ \E j \in 1..(k - 1) : strncmp_eq(str, 0, user_tags[j].start)

\* C12 (as amended): once (kind, S, E) is in the registry, classifying
\* S + payload + E answers kind with that payload, unless a pair tried
\* before it takes the string.
C12_RegisteredTagClassifies ==
    (log # <<>> /\ log[1].cb = "XML_parse_1string")
    => \A k \in 1..Len(user_tags) :
         (IsPairOf(log[1].str, user_tags[k]) /\ ~TakenBefore(log[1].str, k))
         => /\ ~log[1].ub
            /\ log[1].ret = user_tags[k].tag_type
            /\ log[1].tag_type = user_tags[k].tag_type
            /\ log[1].tag = PayloadOf(log[1].str, user_tags[k])

\* <{ ... }> was registered as TAG_USER and <{x}> classified as such
C12_Witness ==
    /\ user_tags # <<>>
    /\ user_tags[1] = [tag_type |-> TAG_USER, start |-> <<"<", "{">>,
                       end |-> <<"}", ">">>]
    /\ log # <<>>
    /\ log[1].cb = "XML_parse_1string"
    /\ log[1].str = <<"<", "{", "x", "}", ">">>
    /\ log[1].ret = TAG_USER
    /\ log[1].tag = <<"x">>

\* C12 (as stated): registering a kind at or above the threshold with start
\* delimiter {{ and end delimiter }} succeeds.
C12_BracesRegister ==
    (/\ log # <<>>
     /\ log[1].cb = "XML_register_user_tag"
     /\ log[1].tag_type >= TAG_USER
     /\ log[1].start = <<"{", "{">>
     /\ log[1].end = <<"}", "}">>)
    => log[1].r

\* the call c of XML_register_user_tag has a kind below the threshold, a
\* start delimiter that does not start with '<' or an end delimiter that
\* does not end with '>'
BadRegistration(c) ==
    \/ c.tag_type < TAG_USER
    \/ c.start = NULL
    \/ At(c.start, 0) # "<"
    \/ c.end = NULL
    \/ At(c.end, Len(c.end) - 1) # ">"

\* C13: XML_register_user_tag rejects every call with a bad kind or a bad
\* delimiter and leaves the registry as it was; every accepted call appends
\* exactly one entry at the end and changes no earlier entry.
C13_RegistryAppendOnly ==
    [][(log' # <<>> /\ log'[1].cb = "XML_register_user_tag")
       => /\ BadRegistration(log'[1])
             => (~log'[1].r /\ user_tags' = user_tags)
          /\ log'[1].r
             => user_tags' = Append(user_tags,
                                    [tag_type |-> log'[1].tag_type,
                                     start |-> log'[1].start,
                                     end |-> log'[1].end])
          /\ ~log'[1].r => user_tags' = user_tags]_vars

\* the attributes a classifier should answer for the attribute list as
ActiveAttrs(as) ==
    [k \in 1..Len(as) |->
       [name |-> as[k].name, value |-> as[k].value, active |-> TRUE]]

FragName(str) == Sub(str, 0, ScanTo(str, 0, {"=", " ", "\n", "\t", "\r"}))
FragEq(str) == SkipSpaces(str, Len(FragName(str)))
FragValue(str) == From(str, SkipSpaces(str, FragEq(str) + 1))

OpensWithQuote(str) == At(FragValue(str), 0) = "\""
ClosesWithQuote(str) ==
    Len(FragValue(str)) >= 2 /\ At(FragValue(str), Len(FragValue(str)) - 1) = "\""

\* C15: the decoder answers QuoteMismatch (2) exactly when the value opens
\* with a quote and does not close with one, and then still gives the
\* attribute, with its name and the value text that follows the opening
\* quote; a fragment without '=' after the name is Malformed (0).
C15_QuoteMismatch ==
    (log # <<>> /\ log[1].cb = "XML_parse_attribute" /\ ~log[1].ub)
    => LET str == log[1].str
       IN  IF At(str, FragEq(str)) # "="
           THEN log[1].ret = 0
           ELSE /\ log[1].ret = 2
                   <=> (OpensWithQuote(str) /\ ~ClosesWithQuote(str))
                /\ log[1].ret = 2
                   => /\ log[1].name = FragName(str)
                      /\ log[1].value = Tail(FragValue(str))

\* the last call was cb
LastCall(cb) == log # <<>> /\ log[1].cb = cb

\* the positions (from 1) of the attributes of nd named name, active or not
NamedAt(nd, name) ==
    {i \in 1 .. Len(nd.attributes) : nd.attributes[i].name = name}

\* C16: after a successful set_attribute(node, name, value), an attribute of
\* that name that existed, active or not, was updated in place and is active
\* and the count is unchanged; otherwise exactly one attribute was appended at
\* the end; either way find_attribute(node, name, 0) gives an index whose
\* value is `value`.
C16_SetAttribute ==
    (LastCall("XMLNode_set_attribute") /\ log[1].ret > 0)
    => LET c   == log[1]
           new == [name |-> c.name, value |-> c.value, active |-> TRUE]
       IN  /\ IF NamedAt(c.before, c.name) # {}
              THEN \E i \in NamedAt(c.before, c.name) :
                      c.after.attributes =
                          [c.before.attributes EXCEPT ![i] = new]
              ELSE c.after.attributes = Append(c.before.attributes, new)
           /\ c.found >= 0
           /\ c.after.attributes[c.found + 1].value = c.value

\* C17: remove_attribute(node, i) with 0 <= i < n_attributes, i = 0
\* included, leaves n_attributes - 1 attributes, the remaining ones in their
\* order, and find_attribute on the removed name then finds nothing; with any
\* other i it returns an error and the node is as it was.
C17_RemoveAttribute ==
    LastCall("XMLNode_remove_attribute")
    => LET c == log[1]
           n == Len(c.before.attributes)
       IN  IF c.i >= 0 /\ c.i < n
           THEN /\ c.ret = n - 1
                /\ c.after.attributes =
                       [k \in 1 .. n - 1 |->
                           IF k <= c.i THEN c.before.attributes[k]
                           ELSE c.before.attributes[k + 1]]
                /\ c.found = -1
           ELSE /\ c.ret = -1
                /\ c.after = c.before

\* the names of the active attributes of nd
ActiveNames(nd) ==
    {nd.attributes[i].name :
        i \in {j \in 1 .. Len(nd.attributes) : nd.attributes[j].active}}

\* C18: equal(a, b) is true exactly when the tags are equal and the active
\* attributes of a and of b have the same set of names, whatever the values,
\* the inactive attributes and the text; equal(a, a) is true and equal(b, a)
\* is equal(a, b).
C18_Equal ==
    LastCall("XMLNode_equal")
    => LET c == log[1]
       IN  /\ c.ret <=> (c.a.tag = c.b.tag
                         /\ ActiveNames(c.a) = ActiveNames(c.b))
           /\ c.same => c.ret
           /\ c.back = c.ret

\* C20: after a successful copy(dst, src, deep), dst has the tag, the text
\* and the attributes (name, value, active, in order) of src, and as many
\* children as src when deep is asked, none otherwise.
C20_Copy ==
    (LastCall("XMLNode_copy") /\ log[1].ret /\ ~log[1].ub)
    => LET c == log[1]
       IN  /\ c.dst.tag = c.src.tag
           /\ c.dst.text = c.src.text
           /\ c.dst.attributes = c.src.attributes
           /\ Len(c.dst.children) = IF c.deep THEN c.n_children ELSE 0

\* the nodes under and including nd, a node before its children and the
\* children in their order
RECURSIVE PreOrder(_, _), PreOrderAll(_, _)
PreOrder(h, nd) == <<nd>> \o PreOrderAll(h, h[nd].children)
PreOrderAll(h, ch) ==
    IF ch = <<>> THEN <<>>
    ELSE PreOrder(h, Head(ch)) \o PreOrderAll(h, Tail(ch))

\* C19: on a tree whose children name their holder as father, next gives the
\* pre-order successor, so the walk from the root is at every node once, in
\* pre-order, and then at none.
C19_NextIsPreOrder ==
    LET want == Append(PreOrder(heap, 1), 0)
    IN  /\ Len(log) <= Len(want)
        /\ log = SubSeq(want, 1, Len(log))
        /\ current = log[Len(log)]
        /\ current = 0 <=> Len(log) = Len(want)

\* C19 witness: a walk that ended after stepping from a node to a node that
\* is neither its child nor its sibling
C19_Witness ==
    /\ current = 0
    /\ \E k \in 1 .. Len(log) - 2 :
         /\ heap[log[k + 1]].father # log[k]
         /\ heap[log[k + 1]].father # heap[log[k]].father

\* C24: an end tag raises only End; a node of kind TAG_END is never handed
\* to the start callback, nor to the catch-all as a Start event, whichever
\* slots are set.
C24_EndTagOnlyEnds ==
    \A i \in 1 .. Len(log) :
        log[i].tag_type = TAG_END
        => /\ log[i].cb # "start_node"
           /\ ~(log[i].cb = "all_event" /\ log[i].ev = "START")

\* the starts the Tree Builder took while its cursor was none, in order
TopStarts ==
    LET T(e) == e.cb = "start_node" /\ e.cur = 0 /\ e.r
    IN  SelectSeq(log, T)

\* C22: in a DOM parse the nodes started while the cursor is none are the
\* document's top-level nodes in document order, the first element among
\* them, start-with-children or self-closing, is the root and stays it, and
\* between two tags the cursor is none or a start-with-children element.
C22_FirstElementIsRoot ==
    (sax.start_node = "DOM" /\ ~(pc = "done" /\ result = "false"))
    => LET elems == {k \in 1 .. Len(TopStarts) :
                        TopStarts[k].tag_type \in Elements}
       IN  /\ Len(doc.nodes) = Len(TopStarts)
           /\ \A k \in 1 .. Len(doc.nodes) :
                /\ heap[doc.nodes[k]].tag = TopStarts[k].tag
                /\ heap[doc.nodes[k]].tag_type = TopStarts[k].tag_type
           /\ doc.i_root = IF elems = {} THEN -1 ELSE Min(elems) - 1
           /\ (pc = "loop" /\ current # 0)
              => heap[current].tag_type = TAG_FATHER

\* the end callbacks the Tree Builder got while its cursor was none
StrayEnds ==
    {i \in 1 .. Len(log) :
        log[i].cb = "end_node" /\ log[i].tag_type = TAG_END /\ log[i].cur = 0}

\* C25: an end tag read while no element is open makes the DOM parse return
\* failure with the document emptied, never success.
C25_StrayEndFails ==
    (sax.start_node = "DOM" /\ pc = "done" /\ StrayEnds # {})
    => /\ result = "false"
       /\ doc = XMLDoc_init
       /\ heap = <<>>

C21_FatherHoldsChild ==
    /\ heap[1].father = 0
    /\ \A nd \in 1 .. Len(heap) : \A i \in 1 .. Len(heap[nd].children) :
         heap[heap[nd].children[i]].father = nd

\* C26: when a classifier answers a special or user kind, the tag text is
\* the start delimiter, a payload and the end delimiter of a pair of that
\* kind, the two delimiters not overlapping: `<?>`, `<!-->` and `<!--->` are
\* not taken as complete special tags.
C26_DelimitersDoNotOverlap ==
    (log # <<>> /\ log[1].cb \in {"XML_parse_1string", "_parse_XML_1string"}
     /\ (log[1].ret \in {TAG_INSTR, TAG_COMMENT, TAG_CDATA}
         \/ log[1].ret >= TAG_USER))
    => \E k \in 1 .. Len(_spec \o user_tags) :
         /\ (_spec \o user_tags)[k].tag_type = log[1].ret
         /\ IsPairOf(log[1].str, (_spec \o user_tags)[k])

\* str is <a followed by white space and more, every value in quotes and
\* the quotes in pairs: a tag whose classification goes through the
\* attribute loop and stays inside str
HasAttributePart(str) ==
    /\ Len(str) > 3
    /\ Sub(str, 0, 2) = <<"<", "a">>
    /\ isspace(At(str, 2))
    /\ \A i \in 1 .. Len(str) : str[i] = "=" => At(str, i) = "\""
    /\ Cardinality({i \in 1 .. Len(str) : str[i] = "\""}) % 2 = 0

\* C27: when a classifier fails while decoding an attribute, its cleanup
\* releases only what was allocated and only once (nothing undefined
\* happens) and the node is left as initialised, without attributes.
C27_CleanFailure ==
    (/\ log # <<>>
     /\ log[1].cb \in {"XML_parse_1string", "_parse_XML_1string"}
     /\ HasAttributePart(log[1].str)
     /\ log[1].ret = 0)
    => /\ ~log[1].ub
       /\ log[1].tag = NULL
       /\ log[1].attributes = <<>>

====
